---------------------------- MODULE Spec2Model ----------------------------
(***************************************************************************)
(* K-Word: a browser quiz.  A Korean word is shown, the player types a     *)
(* romanization and has MAX_ATTEMPTS attempts; the round, the attempt      *)
(* number and four statistics counters live in localStorage.               *)
(*                                                                         *)
(* The model follows the later variant of src/src/js/local.js (lines       *)
(* 357-923).  One action stands for one event-loop turn: the resolution of *)
(* the dictionary promise, a submit of the word form, a submit of the      *)
(* play-again form, a click on the reset button, a page reload.            *)
(*                                                                         *)
(* Markup (index.html) is not part of the sources.  The page is taken to   *)
(* start as play() leaves it: the word input enabled, the submit button    *)
(* shown and the play-again offer hidden.  The word form can be submitted  *)
(* whenever the input is enabled; the play-again form whenever its offer   *)
(* is shown.                                                               *)
(***************************************************************************)
EXTENDS Integers, Sequences, FiniteSets, TLC

(***************************************************************************)
(* Text.  A string is a sequence of characters; a character is named by a  *)
(* short ASCII string.                                                     *)
(*   a n o / A N O     Latin letters, lower and upper case                 *)
(*   o_breve O_breve   precomposed U+014F / U+014E                         *)
(*   breve             combining breve U+0306 (in U+0300..U+036F)          *)
(*   cyr_n cyr_o       Cyrillic letters                                    *)
(*   han               a precomposed Hangul syllable                       *)
(*   jamo_l jamo_v     the conjoining jamo the syllable decomposes into    *)
(*   d1                a digit                                             *)
(*   sp                white space                                         *)
(*   hyphen            punctuation                                         *)
(***************************************************************************)
LowerLatin == {"a", "n", "o"}

UpperLatin == {"A", "N", "O"}

Letters ==
    LowerLatin \cup UpperLatin
        \cup {"o_breve", "O_breve", "cyr_n", "cyr_o", "han", "jamo_l", "jamo_v"}

Numbers == {"d1"}

CombiningMarks == {"breve"}

WhiteSpace == {"sp"}

\* String.prototype.trim: drops leading and trailing white space.
RECURSIVE trimStart(_)
trimStart(s) ==
    IF s # <<>> /\ Head(s) \in WhiteSpace THEN trimStart(Tail(s)) ELSE s

RECURSIVE trimEnd(_)
trimEnd(s) ==
    IF s # <<>> /\ s[Len(s)] \in WhiteSpace
    THEN trimEnd(SubSeq(s, 1, Len(s) - 1))
    ELSE s

trim(s) == trimEnd(trimStart(s))

\* String.prototype.toLowerCase, character by character.
lowerChar(c) ==
    CASE c = "A" -> "a"
      [] c = "N" -> "n"
      [] c = "O" -> "o"
      [] c = "O_breve" -> "o_breve"
      [] OTHER -> c

toLowerCase(s) == [i \in DOMAIN s |-> lowerChar(s[i])]

\* Canonical decomposition of one character.
decompose(c) ==
    CASE c = "o_breve" -> <<"o", "breve">>
      [] c = "O_breve" -> <<"O", "breve">>
      [] c = "han" -> <<"jamo_l", "jamo_v">>
      [] OTHER -> <<c>>

\* String.prototype.normalize('NFD').
RECURSIVE normalizeNFD(_)
normalizeNFD(s) ==
    IF s = <<>> THEN <<>> ELSE decompose(Head(s)) \o normalizeNFD(Tail(s))

\* .replace(/[\u0300-\u036f]/g, '')
IsNotMark(c) == c \notin CombiningMarks

stripMarks(s) == SelectSeq(s, IsNotMark)

\* .replace(/[^\p{L}\p{N}]/gu, '')
IsLetterOrNumber(c) == c \in Letters \cup Numbers

\* The same replace without the g flag: only the first match is removed.
RECURSIVE keepLettersAndNumbersOnce(_)
keepLettersAndNumbersOnce(s) ==
    IF s = <<>> THEN <<>>
    ELSE IF IsLetterOrNumber(Head(s))
         THEN <<Head(s)>> \o keepLettersAndNumbersOnce(Tail(s))
         ELSE Tail(s)

keepLettersAndNumbers(s) == SelectSeq(s, IsLetterOrNumber)

\* sanitizeText with the call of toLowerCase left out.
sanitizeTextCaseSensitive(input) ==
    keepLettersAndNumbers(stripMarks(normalizeNFD(trim(input))))

sanitizeText(input) ==
    keepLettersAndNumbers(stripMarks(normalizeNFD(toLowerCase(trim(input)))))

\* The earlier variant, sanitizeInput: .replace(/[^a-zA-Z0-9]/g, '')
IsAsciiLetterOrDigit(c) == c \in LowerLatin \cup UpperLatin \cup Numbers

sanitizeInput(input) ==
    SelectSeq(toLowerCase(trim(input)), IsAsciiLetterOrDigit)

(***************************************************************************)
(* The dictionary and the romanizer.  The dictionary file and the          *)
(* Aromanize library are external; two entries stand for the parsed file,  *)
(* and each scheme's output is a fixed string per word.  The outputs mix   *)
(* punctuation, upper case, white space, diacritics and Cyrillic, as the   *)
(* library's schemes do.                                                   *)
(***************************************************************************)
Dictionary ==
    << [korean |-> "word1", definition |-> "Def1"],
       [korean |-> "word2", definition |-> "Def2"] >>

Words == {Dictionary[i].korean : i \in DOMAIN Dictionary}

DefinitionOf(w) ==
    Dictionary[CHOOSE i \in DOMAIN Dictionary : Dictionary[i].korean = w].definition

Schemes == <<"rr-translit", "rr", "skats", "ebi", "konsevich">>

Aromanize(w, scheme) ==
    CASE w = "word1" /\ scheme = "rr-translit" -> <<"a", "hyphen", "n">>
      [] w = "word1" /\ scheme = "rr" -> <<"a", "n">>
      [] w = "word1" /\ scheme = "skats" -> <<"N", "sp", "A">>
      [] w = "word1" /\ scheme = "ebi" -> <<"a", "n", "o">>
      [] w = "word1" /\ scheme = "konsevich" -> <<"cyr_n">>
      [] w = "word2" /\ scheme = "rr-translit" -> <<"n", "o">>
      [] w = "word2" /\ scheme = "rr" -> <<"n", "o">>
      [] w = "word2" /\ scheme = "skats" -> <<"O", "N", "sp">>
      [] w = "word2" /\ scheme = "ebi" -> <<"n", "o_breve">>
      [] w = "word2" /\ scheme = "konsevich" -> <<"cyr_n", "cyr_o">>

\* play(): the five romanizations of the word, each trimmed.
romanizationsOf(w) == [i \in DOMAIN Schemes |-> trim(Aromanize(w, Schemes[i]))]

(***************************************************************************)
(* What the player can type.                                               *)
(***************************************************************************)
upperChar(c) ==
    CASE c = "a" -> "A"
      [] c = "n" -> "N"
      [] c = "o" -> "O"
      [] c = "o_breve" -> "O_breve"
      [] OTHER -> c

\* The string in upper case.
UpperCased(s) == [i \in DOMAIN s |-> upperChar(s[i])]

\* The string with white space around it.
Padded(s) == <<"sp">> \o s \o <<"sp">>

\* The string with diacritics added: o becomes the precomposed o-breve,
\* a is followed by a combining breve.
accentChar(c) ==
    CASE c = "o" -> <<"o_breve">>
      [] c = "O" -> <<"O_breve">>
      [] c = "a" -> <<"a", "breve">>
      [] c = "A" -> <<"A", "breve">>
      [] OTHER -> <<c>>

RECURSIVE Accented(_)
Accented(s) ==
    IF s = <<>> THEN <<>> ELSE accentChar(Head(s)) \o Accented(Tail(s))

\* The variations of a string in case, surrounding white space and diacritics.
Variations(s) ==
    {s, UpperCased(s), Padded(s), Accented(s), Padded(UpperCased(Accented(s)))}

CanonicalAnswer(w) == romanizationsOf(w)[1]

BlankInputs == {<<>>, <<"sp">>, <<"hyphen">>}

WrongInputs == {<<"o", "o">>, <<"han">>, <<"d1">>}

Inputs ==
    BlankInputs \cup WrongInputs
        \cup UNION {Variations(CanonicalAnswer(w)) : w \in Words}
        \cup UNION {{romanizationsOf(w)[i] : i \in DOMAIN Schemes} : w \in Words}

(***************************************************************************)
(* Constants and bounds.                                                   *)
(***************************************************************************)
MAX_ATTEMPTS == 3

\* Rounds resolved before the statistics are reset; caps totalAttempts.
MaxRounds == 2

\* The largest counter value an earlier session left in storage.
MaxCounter == 2

\* The longest text handed to the normalizer on its own.
MaxLen == 2

\* localStorage.getItem of a key that is not set (null), for the numeric keys.
Absent == -1

\* A variable that was never assigned.
Undefined == <<>>

(***************************************************************************)
(* State.                                                                  *)
(***************************************************************************)
VARIABLES
    \* localStorage
    lsEntry,            \* 'currentEntry': "absent", a word (the JSON of its
                        \* entry), "garbage" (not JSON) or "null" (JSON null)
    lsAttempt,          \* 'currentAttempt'
    lsCurrentStreak,    \* 'currentStreak'
    lsMaxStreak,        \* 'maxStreak'
    lsTotalAttempts,    \* 'totalAttempts'
    lsCorrectAnswers,   \* 'correctAnswers'
    lsDifficulty,       \* 'difficulty': "easy", "normal" or "hard"
    lsTheme,            \* 'theme': "absent", "dark", "light" or "auto"
    \* the page
    loadState,          \* the dictionary promise: "loading", "loaded", "failed"
    korean,             \* "undefined" or the word of the round
    definition,
    romanizations,      \* Undefined or the accepted answers
    currentAttempt,
    inputLocked,        \* word-input carries the disabled attribute
    playAgainShown,     \* play-again-offer is displayed
    wordInput,          \* value of word-input
    outcome,            \* what the last submit showed: "none", "correct",
                        \* "retry", "exhausted", "error" (the handler threw)
    pc,                 \* "idle", or the next storage write of a running handler
    \* history
    lastOp,             \* the last event handled
    thrown,             \* the last handler raised an error it did not catch
    attemptBefore,      \* currentAttempt as the last submit found it
    created,            \* the last play() stored a new entry
    playRead,           \* what the last play() found under 'currentEntry'
    run,                \* incorrect submissions in a row since a round was
                        \* created at attempt 1; -1 when the run is broken
    wrongInRound,       \* non-matching submissions since the round was created
    resolved,           \* a round resolved and play() has not run since
    streakResetByExhaust, \* resetStreak() wrote 0 for the round last exhausted
    roundsResolved,     \* rounds resolved since the statistics were last reset
    roundsCorrect,      \* those of them resolved by a correct submission
    \* the earlier variant of the script, given the same events
    earlier             \* its variables, streak keys and input state

storage ==
    <<lsEntry, lsAttempt, lsCurrentStreak, lsMaxStreak, lsTotalAttempts,
      lsCorrectAnswers, lsDifficulty, lsTheme>>

settings == <<lsDifficulty, lsTheme>>

stats == <<lsCurrentStreak, lsMaxStreak, lsTotalAttempts, lsCorrectAnswers>>

page ==
    <<loadState, korean, definition, romanizations, currentAttempt,
      inputLocked, playAgainShown, wordInput, outcome, pc>>

history ==
    <<lastOp, thrown, attemptBefore, created, playRead, run, wrongInRound,
      resolved, streakResetByExhaust, roundsResolved, roundsCorrect>>

rounds == <<roundsResolved, roundsCorrect>>

vars == <<storage, page, history, earlier>>

(***************************************************************************)
(* The functions of the script.                                            *)
(***************************************************************************)
\* parseInt(localStorage.getItem(key) || '0')
getItemOrZero(v) == IF v = Absent THEN 0 ELSE v

\* csvEntries: empty until the promise resolves.
csvEntries == IF loadState = "loaded" THEN Dictionary ELSE <<>>

\* checkAnswer, line 540, compared with the first romanization only.
isCorrectCanonicalOnly(input, values) ==
    /\ input # <<>>
    /\ values # Undefined
    /\ sanitizeText(values[1]) = input

\* checkAnswer, line 540: input is the sanitized text.
isCorrect(input, values) ==
    /\ input # <<>>
    /\ \E i \in DOMAIN values : sanitizeText(values[i]) = input

\* checkAnswer, line 572, exhausting one attempt early.
attemptsExhaustedEarly(attempt) == attempt >= MAX_ATTEMPTS - 1

\* checkAnswer, line 572, with > for >=.
attemptsExhaustedStrict(attempt) == attempt > MAX_ATTEMPTS

\* checkAnswer, line 572.
attemptsExhausted(attempt) == attempt >= MAX_ATTEMPTS

\* recordAttempt: the value it stores, displays and returns.
recordAttempt(stored) ==
    LET attempt == getItemOrZero(stored)
    IN  IF attempt < 3 THEN attempt + 1 ELSE attempt

\* updateStats clearing maxStreak along with currentStreak on false.
updateStatsClearsMax(ok, currentStreak, maxStreak, totalAttempts, correctAnswers) ==
    LET cs == getItemOrZero(currentStreak)
        ms == getItemOrZero(maxStreak)
        ta == getItemOrZero(totalAttempts)
        ca == getItemOrZero(correctAnswers)
    IN  [currentStreak |-> IF ok THEN cs + 1 ELSE 0,
         maxStreak |-> IF ~ok THEN 0 ELSE IF cs + 1 > ms THEN cs + 1 ELSE ms,
         totalAttempts |-> ta + 1,
         correctAnswers |-> IF ok THEN ca + 1 ELSE ca]

\* updateStats counting only the rounds answered correctly.
updateStatsCountsWins(ok, currentStreak, maxStreak, totalAttempts, correctAnswers) ==
    LET cs == getItemOrZero(currentStreak)
        ms == getItemOrZero(maxStreak)
        ta == getItemOrZero(totalAttempts)
        ca == getItemOrZero(correctAnswers)
    IN  [currentStreak |-> IF ok THEN cs + 1 ELSE 0,
         maxStreak |-> IF ok /\ cs + 1 > ms THEN cs + 1 ELSE ms,
         totalAttempts |-> IF ok THEN ta + 1 ELSE ta,
         correctAnswers |-> IF ok THEN ca + 1 ELSE ca]

\* updateStats with the maxStreak comparison left out.
updateStatsNoMax(ok, currentStreak, maxStreak, totalAttempts, correctAnswers) ==
    LET cs == getItemOrZero(currentStreak)
        ms == getItemOrZero(maxStreak)
        ta == getItemOrZero(totalAttempts)
        ca == getItemOrZero(correctAnswers)
    IN  [currentStreak |-> IF ok THEN cs + 1 ELSE 0,
         maxStreak |-> ms,
         totalAttempts |-> ta + 1,
         correctAnswers |-> IF ok THEN ca + 1 ELSE ca]

\* updateStats: the four values it writes.
updateStats(ok, currentStreak, maxStreak, totalAttempts, correctAnswers) ==
    LET cs == getItemOrZero(currentStreak)
        ms == getItemOrZero(maxStreak)
        ta == getItemOrZero(totalAttempts)
        ca == getItemOrZero(correctAnswers)
    IN  IF ok
        THEN [currentStreak |-> cs + 1,
              maxStreak |-> IF cs + 1 > ms THEN cs + 1 ELSE ms,
              totalAttempts |-> ta + 1,
              correctAnswers |-> ca + 1]
        ELSE [currentStreak |-> 0,
              maxStreak |-> ms,
              totalAttempts |-> ta + 1,
              correctAnswers |-> ca]

\* updateAttemptDisplay showing the number without assigning currentAttempt.
updateAttemptDisplayOnly(attempt) == currentAttempt

\* updateAttemptDisplay, line 717: the value currentAttempt takes.
updateAttemptDisplay(attempt) == attempt

\* resetAttempts as the earlier variant has it (line 286): back to 0.
resetAttemptsZero == 0

\* resetAttempts, line 707: the attempt number it stores and keeps in memory.
resetAttempts == 1

\* The reset handler with the removeItem of 'maxStreak' left out.
resetStatsKeepsMax(confirmed, currentStreak, maxStreak, totalAttempts, correctAnswers) ==
    [currentStreak |-> IF confirmed THEN Absent ELSE currentStreak,
     maxStreak |-> maxStreak,
     totalAttempts |-> IF confirmed THEN Absent ELSE totalAttempts,
     correctAnswers |-> IF confirmed THEN Absent ELSE correctAnswers]

\* The reset handler, lines 843-848: what the four keys hold afterwards;
\* confirmed is the answer to confirm().
resetStats(confirmed, currentStreak, maxStreak, totalAttempts, correctAnswers) ==
    IF confirmed
    THEN [currentStreak |-> Absent, maxStreak |-> Absent,
          totalAttempts |-> Absent, correctAnswers |-> Absent]
    ELSE [currentStreak |-> currentStreak, maxStreak |-> maxStreak,
          totalAttempts |-> totalAttempts, correctAnswers |-> correctAnswers]

\* clearCurrentEntry with the removeItem call left out.
clearCurrentEntryKeeps == lsEntry

\* clearCurrentEntry: what localStorage holds under 'currentEntry' afterwards.
clearCurrentEntry == "absent"

\* JSON.parse raises a SyntaxError on the stored text.
jsonParseThrows(stored) == stored = "garbage"

\* getRandomEntry: the entry at the index drawn; an entry is stored and
\* compared by its word.
getRandomEntry(entries, index) == entries[index].korean

\* getCurrentOrNewEntry without the try/catch around JSON.parse.
getCurrentOrNewEntryNoCatch(stored, entries, index) ==
    IF stored # "absent"
    THEN [result |-> stored, store |-> stored, created |-> FALSE,
          thrown |-> jsonParseThrows(stored)]
    ELSE [result |-> getRandomEntry(entries, index),
          store |-> getRandomEntry(entries, index),
          created |-> TRUE, thrown |-> FALSE]

\* getCurrentOrNewEntry over the dictionary entries: what it returns and what
\* it leaves in storage.  A stored text that parses is returned as parsed; one
\* that does not parse is replaced like a missing one.
getCurrentOrNewEntry(stored, entries, index) ==
    IF stored # "absent" /\ ~jsonParseThrows(stored)
    THEN [result |-> stored, store |-> stored, created |-> FALSE,
          thrown |-> FALSE]
    ELSE [result |-> getRandomEntry(entries, index),
          store |-> getRandomEntry(entries, index),
          created |-> TRUE, thrown |-> FALSE]

(***************************************************************************)
(* The earlier variant of the script (lines 1-356).  It keeps the failed   *)
(* attempts of the round in the variable currentAttempts, from 0, stores   *)
(* nothing but the two streak keys, and resets the attempts in play().     *)
(* Its state is one record; match says whether the sanitized input equals  *)
(* the romanization.                                                       *)
(***************************************************************************)
\* resetAttempts, line 286.
resetAttemptsEarlier == 0

\* recordAttempt, lines 294-303: the value currentAttempts takes.
recordAttemptEarlier(currentAttempts) ==
    IF currentAttempts < MAX_ATTEMPTS THEN currentAttempts + 1
    ELSE currentAttempts

\* updateStreak, lines 227-238: the two values it writes.
updateStreak(currentStreak, maxStreak) ==
    LET current == getItemOrZero(currentStreak) + 1
        max == getItemOrZero(maxStreak)
    IN  [currentStreak |-> current,
         maxStreak |-> IF current > max THEN current ELSE max]

\* The script as first evaluated, lines 3-7, over empty storage.
EarlierInit ==
    [currentAttempts |-> 0,
     romanization |-> "undefined",
     currentStreak |-> Absent,
     maxStreak |-> Absent,
     disabled |-> FALSE,
     playAgain |-> FALSE,
     outcome |-> "none"]

\* play(), lines 33-68.
playEarlier(e) ==
    [e EXCEPT !.romanization = "defined",
              !.disabled = FALSE,
              !.currentAttempts = resetAttemptsEarlier,
              !.playAgain = FALSE,
              !.outcome = "none"]

\* checkAnswer, lines 123-170.
checkAnswerEarlier(match, e) ==
    IF match
    THEN LET s == updateStreak(e.currentStreak, e.maxStreak)
         IN  [e EXCEPT !.playAgain = TRUE,
                       !.disabled = TRUE,
                       !.currentStreak = s.currentStreak,
                       !.maxStreak = s.maxStreak,
                       !.outcome = "correct"]
    ELSE LET attempts == recordAttemptEarlier(e.currentAttempts)
         IN  IF attempts >= MAX_ATTEMPTS
             THEN [e EXCEPT !.currentAttempts = attempts,
                            !.playAgain = TRUE,
                            !.disabled = TRUE,
                            !.currentStreak = 0,
                            !.outcome = "exhausted"]
             ELSE [e EXCEPT !.currentAttempts = attempts,
                            !.playAgain = FALSE,
                            !.outcome = "retry"]

(***************************************************************************)
(* The state once the script has been evaluated on a first visit: storage  *)
(* is empty but for the attempt number that line 921 records, and the      *)
(* dictionary request is in flight.                                        *)
(***************************************************************************)
Init ==
    /\ lsEntry = "absent"
    /\ lsAttempt = recordAttempt(Absent)
    /\ lsCurrentStreak = Absent
    /\ lsMaxStreak = Absent
    /\ lsTotalAttempts = Absent
    /\ lsCorrectAnswers = Absent
    /\ lsDifficulty = "normal"
    /\ lsTheme = "absent"
    /\ loadState = "loading"
    /\ korean = "undefined"
    /\ definition = "undefined"
    /\ romanizations = Undefined
    /\ currentAttempt = recordAttempt(Absent)
    /\ inputLocked = FALSE
    /\ playAgainShown = FALSE
    /\ wordInput = <<>>
    /\ outcome = "none"
    /\ pc = "idle"
    /\ lastOp = "init"
    /\ thrown = FALSE
    /\ attemptBefore = 0
    /\ created = FALSE
    /\ playRead = "none"
    /\ run = -1
    /\ wrongInRound = 0
    /\ resolved = FALSE
    /\ streakResetByExhaust = FALSE
    /\ roundsResolved = 0
    /\ roundsCorrect = 0
    /\ earlier = EarlierInit

(***************************************************************************)
(* Bookkeeping shared by the actions.                                      *)
(***************************************************************************)
\* The history counters saturate one past MAX_ATTEMPTS.
CountCap == MAX_ATTEMPTS + 1

Bump(n) == IF n < CountCap THEN n + 1 ELSE n

\* The round counters saturate one past MaxRounds.
BumpRounds(n) == IF n <= MaxRounds THEN n + 1 ELSE n

\* The input matches no accepted answer of the persisted round.
MissesPersistedRound(input) ==
    /\ lsEntry \in Words
    /\ ~isCorrect(sanitizeText(input), romanizationsOf(lsEntry))

NoPlay == created' = FALSE /\ playRead' = "none"

(***************************************************************************)
(* play(): resume the stored entry or draw a new one from entries, then    *)
(* show the round.  The attempt number and the statistics are not touched. *)
(* A stored JSON null parses, and line 399 then raises a TypeError.        *)
(***************************************************************************)
Play(op, entries) ==
    \E index \in DOMAIN entries :
        LET r == getCurrentOrNewEntry(lsEntry, entries, index)
        IN  /\ lastOp' = op
            /\ playRead' = lsEntry
            /\ attemptBefore' = 0
            /\ UNCHANGED <<lsAttempt, stats, settings, currentAttempt, pc,
                           rounds>>
            /\ IF r.thrown \/ r.result = "null"
               THEN /\ thrown' = TRUE
                    /\ created' = FALSE
                    /\ UNCHANGED <<lsEntry, korean, definition, romanizations,
                                   inputLocked, playAgainShown, wordInput,
                                   outcome, run, wrongInRound, resolved,
                                   streakResetByExhaust>>
               ELSE /\ thrown' = FALSE
                    /\ created' = r.created
                    /\ lsEntry' = r.store
                    /\ korean' = r.result
                    /\ definition' = DefinitionOf(r.result)
                    /\ romanizations' = romanizationsOf(r.result)
                    /\ wordInput' = <<>>
                    /\ inputLocked' = FALSE
                    /\ playAgainShown' = FALSE
                    /\ outcome' = "none"
                    /\ run' = IF r.created /\ currentAttempt = 1 THEN 0 ELSE -1
                    /\ wrongInRound' = IF r.created THEN 0 ELSE wrongInRound
                    /\ resolved' = FALSE
                    /\ streakResetByExhaust' = FALSE

\* loadCSV().then: the dictionary is parsed and play() runs; an error of
\* play() ends in the .catch.
LoadOk ==
    /\ pc = "idle"
    /\ loadState = "loading"
    /\ loadState' = "loaded"
    /\ Play("load", Dictionary)

\* loadCSV().catch: the request failed; nothing else happens.
LoadFail ==
    /\ pc = "idle"
    /\ loadState = "loading"
    /\ loadState' = "failed"
    /\ lastOp' = "loadFail"
    /\ thrown' = FALSE
    /\ attemptBefore' = 0
    /\ NoPlay
    /\ UNCHANGED <<storage, korean, definition, romanizations, currentAttempt,
                   inputLocked, playAgainShown, wordInput, outcome, pc, run,
                   wrongInRound, resolved, streakResetByExhaust, rounds>>

\* The play-again form is submitted.
PlayAgain ==
    /\ pc = "idle"
    /\ playAgainShown
    /\ UNCHANGED loadState
    /\ Play("playAgain", csvEntries)

(***************************************************************************)
(* The word form is submitted: checkAnswer(word-input.value).              *)
(***************************************************************************)
CanSubmit ==
    /\ pc = "idle"
    /\ ~inputLocked
    /\ getItemOrZero(lsTotalAttempts) < MaxRounds

Submitted(input) ==
    /\ wordInput' = input
    /\ lastOp' = "submit"
    /\ attemptBefore' = currentAttempt
    /\ NoPlay

\* romanizations is still undefined: line 540 raises a TypeError on a
\* non-empty input, line 631 on an empty one at the last attempt.
CheckAnswerThrows(input) ==
    /\ CanSubmit
    /\ romanizations = Undefined
    /\ sanitizeText(input) # <<>> \/ attemptsExhausted(currentAttempt)
    /\ Submitted(input)
    /\ outcome' = "error"
    /\ thrown' = TRUE
    /\ wrongInRound' =
           IF MissesPersistedRound(input) THEN Bump(wrongInRound)
           ELSE wrongInRound
    /\ UNCHANGED <<storage, loadState, korean, definition, romanizations,
                   currentAttempt, inputLocked, playAgainShown, pc, run,
                   resolved, streakResetByExhaust, rounds>>

\* Lines 542-565.
CheckAnswerCorrect(input) ==
    /\ CanSubmit
    /\ isCorrect(sanitizeText(input), romanizations)
    /\ Submitted(input)
    /\ outcome' = "correct"
    /\ thrown' = FALSE
    /\ inputLocked' = TRUE
    /\ playAgainShown' = TRUE
    /\ lsEntry' = clearCurrentEntry
    /\ LET s == updateStats(TRUE, lsCurrentStreak, lsMaxStreak,
                            lsTotalAttempts, lsCorrectAnswers)
       IN  /\ lsCurrentStreak' = s.currentStreak
           /\ lsMaxStreak' = s.maxStreak
           /\ lsTotalAttempts' = s.totalAttempts
           /\ lsCorrectAnswers' = s.correctAnswers
    /\ lsAttempt' = resetAttempts
    /\ currentAttempt' = updateAttemptDisplay(resetAttempts)
    /\ run' = -1
    /\ resolved' = TRUE
    /\ roundsResolved' = BumpRounds(roundsResolved)
    /\ roundsCorrect' = BumpRounds(roundsCorrect)
    /\ UNCHANGED <<settings, loadState, korean, definition, romanizations,
                   pc, wrongInRound, streakResetByExhaust>>

\* Lines 566-570 and 593-596: recordAttempt().
CheckAnswerRetry(input) ==
    /\ CanSubmit
    /\ ~isCorrect(sanitizeText(input), romanizations)
    /\ romanizations = Undefined => sanitizeText(input) = <<>>
    /\ ~attemptsExhausted(currentAttempt)
    /\ Submitted(input)
    /\ outcome' = "retry"
    /\ thrown' = FALSE
    /\ lsAttempt' = recordAttempt(lsAttempt)
    /\ currentAttempt' =
           IF getItemOrZero(lsAttempt) < 3
           THEN updateAttemptDisplay(recordAttempt(lsAttempt))
           ELSE currentAttempt
    /\ run' = IF run >= 0 THEN Bump(run) ELSE run
    /\ wrongInRound' = Bump(wrongInRound)
    /\ playAgainShown' = FALSE
    /\ UNCHANGED <<lsEntry, stats, settings, loadState, korean,
                   definition, romanizations, inputLocked, pc, resolved,
                   streakResetByExhaust, rounds>>

\* What the exhausted branch (lines 572-592) shows before it writes.
ExhaustedShown(input) ==
    /\ CanSubmit
    /\ romanizations # Undefined
    /\ ~isCorrect(sanitizeText(input), romanizations)
    /\ attemptsExhausted(currentAttempt)
    /\ Submitted(input)
    /\ outcome' = "exhausted"
    /\ thrown' = FALSE
    /\ inputLocked' = TRUE
    /\ playAgainShown' = TRUE
    /\ run' = IF run >= 0 THEN Bump(run) ELSE run
    /\ wrongInRound' = Bump(wrongInRound)
    /\ resolved' = TRUE
    /\ roundsResolved' = BumpRounds(roundsResolved)
    /\ UNCHANGED <<settings, loadState, korean, definition, romanizations,
                   roundsCorrect>>

\* Lines 572-592 as one step: resetStreak(), resetAttempts(),
\* clearCurrentEntry(), updateStats(false).
CheckAnswerExhausted(input) ==
    /\ ExhaustedShown(input)
    /\ streakResetByExhaust' = TRUE
    /\ lsAttempt' = resetAttempts
    /\ currentAttempt' = updateAttemptDisplay(resetAttempts)
    /\ lsEntry' = clearCurrentEntry
    /\ LET s == updateStats(FALSE, 0, lsMaxStreak, lsTotalAttempts,
                            lsCorrectAnswers)
       IN  /\ lsCurrentStreak' = s.currentStreak
           /\ lsMaxStreak' = s.maxStreak
           /\ lsTotalAttempts' = s.totalAttempts
           /\ lsCorrectAnswers' = s.correctAnswers
    /\ UNCHANGED pc

Submit ==
    \E input \in Inputs :
        \/ CheckAnswerThrows(input)
        \/ CheckAnswerCorrect(input)
        \/ CheckAnswerRetry(input)
        \/ CheckAnswerExhausted(input)

(***************************************************************************)
(* The reset button of the settings dialog; confirmed is the answer to     *)
(* confirm().                                                              *)
(***************************************************************************)
\* The reset handler removing 'currentEntry' along with the four counters.
ResetStatsClearsEntry ==
    \E confirmed \in BOOLEAN :
        /\ pc = "idle"
        /\ IF confirmed
           THEN /\ lsCurrentStreak' = Absent
                /\ lsMaxStreak' = Absent
                /\ lsTotalAttempts' = Absent
                /\ lsCorrectAnswers' = Absent
                /\ lsEntry' = "absent"
           ELSE UNCHANGED <<stats, lsEntry>>
        /\ lastOp' = IF confirmed THEN "resetStats" ELSE "resetDeclined"
        /\ roundsResolved' = IF confirmed THEN 0 ELSE roundsResolved
        /\ roundsCorrect' = IF confirmed THEN 0 ELSE roundsCorrect
        /\ thrown' = FALSE
        /\ attemptBefore' = 0
        /\ NoPlay
        /\ UNCHANGED <<lsAttempt, settings, page, run, wrongInRound,
                       resolved, streakResetByExhaust>>

ResetStats ==
    \E confirmed \in BOOLEAN :
        /\ pc = "idle"
        /\ LET s == resetStats(confirmed, lsCurrentStreak, lsMaxStreak,
                               lsTotalAttempts, lsCorrectAnswers)
           IN  /\ lsCurrentStreak' = s.currentStreak
               /\ lsMaxStreak' = s.maxStreak
               /\ lsTotalAttempts' = s.totalAttempts
               /\ lsCorrectAnswers' = s.correctAnswers
        /\ lastOp' = IF confirmed THEN "resetStats" ELSE "resetDeclined"
        /\ roundsResolved' = IF confirmed THEN 0 ELSE roundsResolved
        /\ roundsCorrect' = IF confirmed THEN 0 ELSE roundsCorrect
        /\ thrown' = FALSE
        /\ attemptBefore' = 0
        /\ NoPlay
        /\ UNCHANGED <<lsEntry, lsAttempt, settings, page, run,
                       wrongInRound, resolved, streakResetByExhaust>>

(***************************************************************************)
(* A theme button of the settings dialog: saveTheme(theme) stores it.      *)
(***************************************************************************)
Themes == {"dark", "light", "auto"}

SaveTheme ==
    \E theme \in Themes :
        /\ pc = "idle"
        /\ lsTheme # theme
        /\ lsTheme' = theme
        /\ lastOp' = "saveTheme"
        /\ thrown' = FALSE
        /\ attemptBefore' = 0
        /\ NoPlay
        /\ UNCHANGED <<lsEntry, lsAttempt, stats, lsDifficulty, page, run,
                       wrongInRound, resolved, streakResetByExhaust, rounds>>

(***************************************************************************)
(* The page is loaded again: the script is evaluated afresh over the same  *)
(* storage.  Line 921 restores the attempt number, recording a first       *)
(* attempt when none is stored.                                            *)
(***************************************************************************)
Reload ==
    /\ pc = "idle"
    /\ loadState' = "loading"
    /\ korean' = "undefined"
    /\ definition' = "undefined"
    /\ romanizations' = Undefined
    /\ lsAttempt' = IF lsAttempt # Absent THEN lsAttempt ELSE recordAttempt(lsAttempt)
    /\ currentAttempt' = updateAttemptDisplay(lsAttempt')
    /\ inputLocked' = FALSE
    /\ playAgainShown' = FALSE
    /\ wordInput' = <<>>
    /\ outcome' = "none"
    /\ lastOp' = "reload"
    /\ thrown' = FALSE
    /\ attemptBefore' = 0
    /\ NoPlay
    /\ run' = -1
    /\ UNCHANGED <<lsEntry, stats, settings, pc, wrongInRound, resolved,
                   streakResetByExhaust, rounds>>

(***************************************************************************)
(* Something other than this script rewrites 'currentEntry': the stored     *)
(* text stops being the JSON of an entry.                                  *)
(***************************************************************************)
TamperEntry ==
    \E text \in {"garbage", "null"} :
        /\ pc = "idle"
        /\ lsEntry # text
        /\ lsEntry' = text
        /\ lastOp' = "tamper"
        /\ thrown' = FALSE
        /\ attemptBefore' = 0
        /\ NoPlay
        /\ UNCHANGED <<lsAttempt, stats, settings, page, run,
                       wrongInRound, resolved, streakResetByExhaust, rounds>>

(***************************************************************************)
(* The exhausted branch, one storage write per step.  Nothing else runs    *)
(* while the handler does.                                                 *)
(***************************************************************************)
ExhaustedBegin ==
    \E input \in Inputs :
        /\ ExhaustedShown(input)
        /\ pc' = "resetStreak"
        /\ UNCHANGED <<storage, currentAttempt, streakResetByExhaust>>

\* resetStreak(), line 668.
WriteResetStreak ==
    /\ pc = "resetStreak"
    /\ lsCurrentStreak' = 0
    /\ streakResetByExhaust' = TRUE
    /\ pc' = "resetAttempts"
    /\ UNCHANGED <<lsEntry, lsAttempt, lsMaxStreak, lsTotalAttempts,
                   lsCorrectAnswers, loadState, korean, definition,
                   romanizations, currentAttempt, inputLocked, playAgainShown,
                   wordInput, outcome, lastOp, thrown, attemptBefore, created,
                   playRead, run, wrongInRound, resolved, settings,
                   rounds>>

\* resetAttempts(), line 707.
WriteResetAttempts ==
    /\ pc = "resetAttempts"
    /\ lsAttempt' = resetAttempts
    /\ currentAttempt' = updateAttemptDisplay(resetAttempts)
    /\ pc' = "clearCurrentEntry"
    /\ UNCHANGED <<lsEntry, stats, settings, loadState, korean, definition,
                   romanizations, inputLocked, playAgainShown, wordInput,
                   outcome, history>>

\* clearCurrentEntry(), line 498.
WriteClearCurrentEntry ==
    /\ pc = "clearCurrentEntry"
    /\ lsEntry' = clearCurrentEntry
    /\ pc' = "updateStats"
    /\ UNCHANGED <<lsAttempt, stats, settings, loadState, korean,
                   definition, romanizations, currentAttempt, inputLocked,
                   playAgainShown, wordInput, outcome, history>>

\* updateStats(false), lines 812-830: the four counters are read, then
\* written; the four writes come after the entry is gone and are one step.
WriteUpdateStats ==
    /\ pc = "updateStats"
    /\ LET s == updateStats(FALSE, lsCurrentStreak, lsMaxStreak,
                            lsTotalAttempts, lsCorrectAnswers)
       IN  /\ lsCurrentStreak' = s.currentStreak
           /\ lsMaxStreak' = s.maxStreak
           /\ lsTotalAttempts' = s.totalAttempts
           /\ lsCorrectAnswers' = s.correctAnswers
    /\ pc' = "idle"
    /\ UNCHANGED <<lsEntry, lsAttempt, settings, loadState, korean,
                   definition, romanizations, currentAttempt, inputLocked,
                   playAgainShown, wordInput, outcome, history>>

SubmitNotExhausted ==
    \E input \in Inputs :
        \/ CheckAnswerThrows(input)
        \/ CheckAnswerCorrect(input)
        \/ CheckAnswerRetry(input)

(***************************************************************************)
(* updateStats over any stored counters: storage holds what an earlier     *)
(* session left, each key absent or a number, and updateStats(ok) runs.    *)
(***************************************************************************)
StoredCounts == {Absent} \cup (0 .. MaxCounter)

\* The page and the history as the script leaves them once evaluated.
FirstVisitPage ==
    /\ loadState = "loading"
    /\ korean = "undefined"
    /\ definition = "undefined"
    /\ romanizations = Undefined
    /\ currentAttempt = recordAttempt(Absent)
    /\ inputLocked = FALSE
    /\ playAgainShown = FALSE
    /\ outcome = "none"
    /\ pc = "idle"
    /\ lastOp = "init"
    /\ thrown = FALSE
    /\ attemptBefore = 0
    /\ created = FALSE
    /\ playRead = "none"
    /\ run = -1
    /\ wrongInRound = 0
    /\ resolved = FALSE
    /\ streakResetByExhaust = FALSE
    /\ roundsResolved = 0
    /\ roundsCorrect = 0
    /\ earlier = EarlierInit

InitStats ==
    /\ lsEntry = "absent"
    /\ lsAttempt = recordAttempt(Absent)
    /\ lsCurrentStreak \in StoredCounts
    /\ lsMaxStreak \in StoredCounts
    /\ lsTotalAttempts \in StoredCounts
    /\ lsCorrectAnswers \in StoredCounts
    /\ lsDifficulty = "normal"
    /\ lsTheme = "absent"
    /\ wordInput = <<>>
    /\ FirstVisitPage

\* updateStats(ok), lines 811-831: the four keys are read and written.
UpdateStatsCall(ok) ==
    /\ getItemOrZero(lsTotalAttempts) <= MaxCounter
    /\ LET s == updateStats(ok, lsCurrentStreak, lsMaxStreak, lsTotalAttempts,
                            lsCorrectAnswers)
       IN  /\ lsCurrentStreak' = s.currentStreak
           /\ lsMaxStreak' = s.maxStreak
           /\ lsTotalAttempts' = s.totalAttempts
           /\ lsCorrectAnswers' = s.correctAnswers
    /\ lastOp' = IF ok THEN "updateStatsTrue" ELSE "updateStatsFalse"
    /\ UNCHANGED <<lsEntry, lsAttempt, settings, page, thrown,
                   attemptBefore, created, playRead, run, wrongInRound,
                   resolved, streakResetByExhaust, rounds>>

UpdateStatsTrue == UpdateStatsCall(TRUE)

UpdateStatsFalse == UpdateStatsCall(FALSE)

NextStats ==
    \/ UpdateStatsTrue /\ UNCHANGED earlier
    \/ UpdateStatsFalse /\ UNCHANGED earlier

SpecStats == InitStats /\ [][NextStats]_vars

(***************************************************************************)
(* The normalizers on their own: word-input holds any text of up to MaxLen *)
(* characters and one of them replaces it by its result.                   *)
(***************************************************************************)
Alphabet == Letters \cup Numbers \cup CombiningMarks \cup WhiteSpace \cup {"hyphen"}

Texts == UNION {[1 .. n -> Alphabet] : n \in 0 .. MaxLen}

InitNormalize ==
    /\ lsEntry = "absent"
    /\ lsAttempt = recordAttempt(Absent)
    /\ lsCurrentStreak = Absent
    /\ lsMaxStreak = Absent
    /\ lsTotalAttempts = Absent
    /\ lsCorrectAnswers = Absent
    /\ lsDifficulty = "normal"
    /\ lsTheme = "absent"
    /\ wordInput \in Texts
    /\ FirstVisitPage

Normalized(op, result) ==
    /\ lastOp = "init"
    /\ wordInput' = result
    /\ lastOp' = op
    /\ UNCHANGED <<storage, loadState, korean, definition, romanizations,
                   currentAttempt, inputLocked, playAgainShown, outcome, pc,
                   thrown, attemptBefore, created, playRead, run,
                   wrongInRound, resolved, streakResetByExhaust, rounds>>

SanitizeTextCall == Normalized("sanitizeText", sanitizeText(wordInput))

SanitizeInputCall == Normalized("sanitizeInput", sanitizeInput(wordInput))

NextNormalize ==
    \/ SanitizeTextCall /\ UNCHANGED earlier
    \/ SanitizeInputCall /\ UNCHANGED earlier

SpecNormalize == InitNormalize /\ [][NextNormalize]_vars

(***************************************************************************)
(* Rounds started under a difficulty setting.  The pool a new round is     *)
(* drawn from is the dictionary filtered by syllable count: "normal" all   *)
(* of it, "easy" the words of 2 Hangul syllables, "hard" those of 3 or     *)
(* more.  An empty pool is signalled and no round is selected.  A stored   *)
(* round is resumed whatever the setting.                                  *)
(***************************************************************************)
Difficulties == {"easy", "normal", "hard"}

\* The characters of a word: Hangul syllables (U+AC00-U+D7AF) and others.
Spelling(w) ==
    IF w = "word1" THEN <<"syllable">>
    ELSE <<"syllable", "space", "syllable">>

IsHangulSyllable(c) == c = "syllable"

syllableCount(w) == Len(SelectSeq(Spelling(w), IsHangulSyllable))

\* The pool with the filter left out.
difficultyPoolUnfiltered(entries, difficulty) == entries

difficultyPool(entries, difficulty) ==
    LET InPool(e) ==
            CASE difficulty = "easy" -> syllableCount(e.korean) = 2
              [] difficulty = "hard" -> syllableCount(e.korean) >= 3
              [] OTHER -> TRUE
    IN  SelectSeq(entries, InPool)

\* NoEntriesForDifficulty: the start is reported as failed; nothing is
\* selected, stored or shown.
NoEntriesForDifficulty(op) ==
    /\ lastOp' = op
    /\ playRead' = lsEntry
    /\ attemptBefore' = 0
    /\ thrown' = FALSE
    /\ created' = FALSE
    /\ outcome' = "noEntries"
    /\ UNCHANGED <<storage, korean, definition, romanizations, currentAttempt,
                   inputLocked, playAgainShown, wordInput, pc, run,
                   wrongInRound, resolved, streakResetByExhaust, rounds>>

StartRound(op, entries) ==
    LET pool == difficultyPool(entries, lsDifficulty)
        resumes == lsEntry # "absent" /\ ~jsonParseThrows(lsEntry)
    IN  IF ~resumes /\ pool = <<>>
        THEN NoEntriesForDifficulty(op)
        ELSE Play(op, IF resumes THEN entries ELSE pool)

LoadOkDifficulty ==
    /\ pc = "idle"
    /\ loadState = "loading"
    /\ loadState' = "loaded"
    /\ StartRound("load", Dictionary)

PlayAgainDifficulty ==
    /\ pc = "idle"
    /\ playAgainShown
    /\ UNCHANGED loadState
    /\ StartRound("playAgain", csvEntries)

\* The user picks another difficulty in the settings.
SetDifficulty ==
    \E d \in Difficulties :
        /\ pc = "idle"
        /\ d # lsDifficulty
        /\ lsDifficulty' = d
        /\ UNCHANGED lsTheme
        /\ lastOp' = "setDifficulty"
        /\ thrown' = FALSE
        /\ attemptBefore' = 0
        /\ NoPlay
        /\ UNCHANGED <<lsEntry, lsAttempt, stats, page, run, wrongInRound,
                       resolved, streakResetByExhaust, rounds>>

NextDifficulty ==
    \/ LoadOkDifficulty /\ UNCHANGED earlier
    \/ Submit /\ UNCHANGED earlier
    \/ PlayAgainDifficulty /\ UNCHANGED earlier
    \/ Reload /\ UNCHANGED earlier
    \/ SetDifficulty /\ UNCHANGED earlier

SpecDifficulty == Init /\ [][NextDifficulty]_vars

(***************************************************************************)
(* Specifications.                                                         *)
(*   Spec         the script alone, one step per handler                   *)
(*   SpecCorrupt  Spec with the stored entry open to tampering             *)
(*   SpecWrites   Spec with the exhausted branch split into its writes     *)
(*   SpecSettings Spec with the theme setting open to change               *)
(* SpecStats, SpecNormalize and SpecDifficulty are given with their        *)
(* actions above.                                                          *)
(***************************************************************************)
Next ==
    \/ LoadOk /\ UNCHANGED earlier
    \/ LoadFail /\ UNCHANGED earlier
    \/ Submit /\ UNCHANGED earlier
    \/ PlayAgain /\ UNCHANGED earlier
    \/ ResetStats /\ UNCHANGED earlier
    \/ Reload /\ UNCHANGED earlier

Spec == Init /\ [][Next]_vars

NextCorrupt ==
    \/ LoadOk /\ UNCHANGED earlier
    \/ LoadFail /\ UNCHANGED earlier
    \/ Submit /\ UNCHANGED earlier
    \/ PlayAgain /\ UNCHANGED earlier
    \/ ResetStats /\ UNCHANGED earlier
    \/ Reload /\ UNCHANGED earlier
    \/ TamperEntry /\ UNCHANGED earlier

SpecCorrupt == Init /\ [][NextCorrupt]_vars

NextWrites ==
    \/ LoadOk /\ UNCHANGED earlier
    \/ LoadFail /\ UNCHANGED earlier
    \/ SubmitNotExhausted /\ UNCHANGED earlier
    \/ ExhaustedBegin /\ UNCHANGED earlier
    \/ WriteResetStreak /\ UNCHANGED earlier
    \/ WriteResetAttempts /\ UNCHANGED earlier
    \/ WriteClearCurrentEntry /\ UNCHANGED earlier
    \/ WriteUpdateStats /\ UNCHANGED earlier
    \/ PlayAgain /\ UNCHANGED earlier
    \/ ResetStats /\ UNCHANGED earlier
    \/ Reload /\ UNCHANGED earlier

SpecWrites == Init /\ [][NextWrites]_vars

NextSettings ==
    \/ LoadOk /\ UNCHANGED earlier
    \/ Submit /\ UNCHANGED earlier
    \/ PlayAgain /\ UNCHANGED earlier
    \/ ResetStats /\ UNCHANGED earlier
    \/ Reload /\ UNCHANGED earlier
    \/ SaveTheme /\ UNCHANGED earlier

SpecSettings == Init /\ [][NextSettings]_vars

(***************************************************************************)
(* The two variants of the script side by side: every step of the user is  *)
(* given to both, and a submission is decided once (match or mismatch) for *)
(* both.  The earlier variant compares the input with romanization (line   *)
(* 130), which equals nothing while it is still undefined.  No reloads and *)
(* no reset of the statistics: the earlier variant has neither persistence *)
(* of the round nor a reset handler.                                       *)
(***************************************************************************)
Matches(input) ==
    /\ romanizations # Undefined
    /\ isCorrect(sanitizeText(input), romanizations)

\* loadCSV().then of both variants: parseCSV and play().
LoadOkBoth ==
    /\ LoadOk
    /\ earlier' = playEarlier(earlier)

\* The word form is submitted in both variants while both accept input.
SubmitBoth ==
    \E input \in Inputs :
        /\ ~earlier.disabled
        /\ \/ CheckAnswerThrows(input)
           \/ CheckAnswerCorrect(input)
           \/ CheckAnswerRetry(input)
           \/ CheckAnswerExhausted(input)
        /\ earlier' =
               checkAnswerEarlier(Matches(input)
                                      /\ earlier.romanization = "defined",
                                  earlier)

\* The play-again form is submitted in both variants while both offer it.
PlayAgainBoth ==
    /\ PlayAgain
    /\ earlier.playAgain
    /\ earlier' = playEarlier(earlier)

NextVariants ==
    \/ LoadOkBoth
    \/ SubmitBoth
    \/ PlayAgainBoth

SpecVariants == Init /\ [][NextVariants]_vars


(***************************************************************************)
(* Claims.                                                                 *)
(***************************************************************************)
RoundOpenInPage == korean # "undefined" /\ ~inputLocked

\* C1: in a round created at attempt 1, a run of incorrect submissions leaves
\* the round open after the first and the second and resolves it as exhausted
\* on the third; right after the third the stored currentStreak is 0.
C1_ThirdMissExhausts ==
    run >= 0 =>
        /\ run <= MAX_ATTEMPTS
        /\ run < MAX_ATTEMPTS =>
               /\ ~resolved
               /\ outcome # "exhausted"
               /\ lsEntry = korean
               /\ currentAttempt = run + 1
        /\ run = MAX_ATTEMPTS =>
               /\ resolved
               /\ outcome = "exhausted"
               /\ lsEntry = "absent"
               /\ lastOp = "submit" => lsCurrentStreak = 0

\* C1 witness: a third incorrect submission in a row has just exhausted a
\* round that began at attempt 1, ending a streak.
C1_Witness ==
    /\ run = MAX_ATTEMPTS
    /\ lastOp = "submit"
    /\ attemptBefore = MAX_ATTEMPTS
    /\ lsMaxStreak >= 1
    /\ lsCurrentStreak = 0

\* C2 (as claimed): a submission whose normalized form is empty, in an open
\* round, changes neither the attempt number (in memory or stored) nor the
\* stored round nor any of the four counters.
C2_BlankSubmitChangesNothing ==
    [][(/\ RoundOpenInPage
        /\ lastOp' = "submit"
        /\ sanitizeText(wordInput') = <<>>)
          => UNCHANGED <<currentAttempt, storage>>]_vars

\* C3: in an open round, a submission of the first romanization of the word,
\* in any variation of case, surrounding white space and diacritics, is judged
\* correct.
C3_CanonicalAnswerIsCorrect ==
    (/\ lastOp = "submit"
     /\ romanizations # Undefined
     /\ wordInput \in Variations(romanizations[1]))
        => outcome = "correct"

\* C3 witness: at the last attempt the canonical answer was submitted in upper
\* case, with diacritics and white space around it, and was judged correct.
C3_Witness ==
    /\ lastOp = "submit"
    /\ romanizations # Undefined
    /\ attemptBefore = MAX_ATTEMPTS
    /\ wordInput = Padded(UpperCased(Accented(romanizations[1])))
    /\ wordInput # romanizations[1]
    /\ outcome = "correct"

\* C4: a submission in a round is judged correct exactly when its normalized
\* form is not empty and equals the normalized form of one of the accepted
\* answers; any other submission is judged incorrect.
C4_CorrectIffSomeAnswerMatches ==
    (lastOp = "submit" /\ romanizations # Undefined) =>
        /\ outcome \in {"correct", "retry", "exhausted"}
        /\ outcome = "correct" <=>
               /\ sanitizeText(wordInput) # <<>>
               /\ \E i \in DOMAIN romanizations :
                      sanitizeText(romanizations[i]) = sanitizeText(wordInput)

\* C4 witness: a submission was judged correct by an accepted answer whose
\* normalized form differs from that of the first one.
C4_Witness ==
    /\ lastOp = "submit"
    /\ romanizations # Undefined
    /\ outcome = "correct"
    /\ sanitizeText(wordInput) # sanitizeText(romanizations[1])

\* C5 (as claimed): a reload resumes the stored word and definition, and over
\* reloads and incorrect submissions a round takes exactly MAX_ATTEMPTS
\* incorrect submissions before it is exhausted.
C5_ThreeIncorrectSubmissionsPerRound ==
    /\ (lastOp = "load" /\ playRead \in Words) =>
           /\ korean = playRead
           /\ definition = DefinitionOf(playRead)
           /\ lsEntry = playRead
    /\ wrongInRound <= MAX_ATTEMPTS
    /\ outcome = "exhausted" => wrongInRound = MAX_ATTEMPTS

\* C6 (as claimed): once a round has resolved, a submit before the next
\* play() changes neither the counters nor the attempt number nor the stored
\* round.
C6_NoSubmissionAfterResolution ==
    [][(resolved /\ lastOp' = "submit")
          => UNCHANGED <<stats, lsAttempt, currentAttempt, lsEntry>>]_vars

\* C7 (as claimed): whenever a submission has been processed, the dictionary
\* is loaded and the word and its accepted answers are defined.
C7_SubmitOnlyAfterLoadAndPlay ==
    lastOp = "submit" =>
        /\ loadState = "loaded"
        /\ korean # "undefined"
        /\ romanizations # Undefined

\* C8 (as claimed): in no state, storage writes taken one at a time, has the
\* streak been reset by an exhausted round whose entry is still stored.
C8_NoStreakResetWhileRoundOpen ==
    ~(streakResetByExhaust /\ lsEntry # "absent")

\* C8 (amended): whenever no handler is running, it is not the case that the
\* streak has been reset by an exhausted round whose entry is still stored.
C8_NoStreakResetWhileRoundOpenBetweenHandlers ==
    pc = "idle" => ~(streakResetByExhaust /\ lsEntry # "absent")

\* C8 witness: the handler of an exhausting submission has finished; it ended
\* a streak and the entry is gone.
C8_Witness ==
    /\ pc = "idle"
    /\ streakResetByExhaust
    /\ lastOp = "submit"
    /\ lsEntry = "absent"
    /\ lsMaxStreak >= 1
    /\ lsCurrentStreak = 0

\* C9 (as claimed): a round that play() has just created starts at attempt 1,
\* in memory and in storage, and open.
C9_NewRoundStartsAtAttemptOne ==
    created =>
        /\ lsAttempt = 1
        /\ currentAttempt = 1
        /\ ~resolved
        /\ ~inputLocked

\* C10: when play() finds a stored entry that does not parse, no error leaves
\* it, the stored entry is replaced by an entry of the dictionary and that
\* entry is shown as an open round.
C10_UnparseableEntryIsReplaced ==
    playRead = "garbage" =>
        /\ ~thrown
        /\ created
        /\ lsEntry \in Words
        /\ korean = lsEntry
        /\ definition = DefinitionOf(lsEntry)
        /\ romanizations = romanizationsOf(lsEntry)
        /\ ~inputLocked
        /\ ~resolved
        /\ currentAttempt \in 1..MAX_ATTEMPTS

\* C10 witness: at startup play() found text that does not parse where a
\* round in progress had been stored.
C10_Witness ==
    /\ playRead = "garbage"
    /\ lastOp = "load"
    /\ currentAttempt > 1

\* C11: whenever a round is resolved no entry is stored; a play() that finds
\* no entry stores and shows a newly drawn one; and a round shown for
\* answering is the stored one, so an entry is stored exactly while a round
\* is open.
C11_ResolvedRoundIsNotPersisted ==
    /\ resolved => lsEntry = "absent"
    /\ (lastOp \in {"load", "playAgain"} /\ playRead = "absent")
           => /\ created
              /\ lsEntry \in Words
              /\ korean = lsEntry
              /\ ~resolved
    /\ RoundOpenInPage => lsEntry = korean
    /\ lsEntry # "absent" => ~resolved

\* A round was resolved, play-again ran and a new entry is stored.
C11_Witness ==
    /\ lastOp = "playAgain"
    /\ playRead = "absent"
    /\ created
    /\ lsEntry \in Words
    /\ getItemOrZero(lsTotalAttempts) >= 1

\* C12: updateStats(ok) writes what the reference prescribes over the values
\* read, an absent key read as 0: totalAttempts + 1 always; on true
\* currentStreak + 1, correctAnswers + 1 and the larger of maxStreak and
\* currentStreak + 1; on false currentStreak 0 with correctAnswers and
\* maxStreak as read.
C12_UpdateStatsMatchesReference ==
    [][LET read(v) == IF v = Absent THEN 0 ELSE v
           cs == read(lsCurrentStreak)
           ms == read(lsMaxStreak)
           ta == read(lsTotalAttempts)
           ca == read(lsCorrectAnswers)
       IN  /\ lastOp' = "updateStatsTrue" =>
                  /\ lsTotalAttempts' = ta + 1
                  /\ lsCurrentStreak' = cs + 1
                  /\ lsCorrectAnswers' = ca + 1
                  /\ lsMaxStreak' >= ms
                  /\ lsMaxStreak' >= cs + 1
                  /\ lsMaxStreak' \in {ms, cs + 1}
           /\ lastOp' = "updateStatsFalse" =>
                  /\ lsTotalAttempts' = ta + 1
                  /\ lsCurrentStreak' = 0
                  /\ lsCorrectAnswers' = ca
                  /\ lsMaxStreak' = ms]_vars

\* updateStats(true) ran over an absent currentStreak and a maxStreak of 2:
\* the streak is 1 and the longest streak is kept.
C12_Witness ==
    /\ lastOp = "updateStatsTrue"
    /\ lsCurrentStreak = 1
    /\ lsMaxStreak = 2
    /\ lsTotalAttempts = 1
    /\ lsCorrectAnswers = 1

\* C13: from empty storage, after any sequence of submissions, round starts,
\* reloads and statistics resets, the stored maxStreak is at least the stored
\* currentStreak, an absent key counting as 0.
C13_MaxStreakAtLeastCurrentStreak ==
    getItemOrZero(lsMaxStreak) >= getItemOrZero(lsCurrentStreak)

\* A streak of 1 was ended by an exhausted round: maxStreak keeps it.
C13_Witness ==
    /\ lastOp = "submit"
    /\ outcome = "exhausted"
    /\ lsCurrentStreak = 0
    /\ lsMaxStreak = 1

\* C14: no step of the program, a statistics reset included, takes the stored
\* maxStreak to a smaller value, an absent key counting as 0.
C14_MaxStreakNeverDecreases ==
    [][getItemOrZero(lsMaxStreak') >= getItemOrZero(lsMaxStreak)]_vars

\* C14, amended: a confirmed statistics reset removes maxStreak; no other
\* step (submission, round start, reload, declined reset) takes it to a
\* smaller value.
C14_MaxStreakDecreasesOnlyOnConfirmedReset ==
    [][IF lastOp' = "resetStats"
       THEN lsMaxStreak' = Absent
       ELSE getItemOrZero(lsMaxStreak') >= getItemOrZero(lsMaxStreak)]_vars

\* A streak of 1 was ended by an exhausted round and the next round started:
\* maxStreak is still 1.
C14_Witness ==
    /\ lastOp = "playAgain"
    /\ RoundOpenInPage
    /\ getItemOrZero(lsCurrentStreak) = 0
    /\ lsMaxStreak = 1
    /\ lsTotalAttempts = MaxRounds

\* C15: a submission at attempt 1 or 2 that is not correct leaves the four
\* counters as they were, and a submission that takes currentStreak from a
\* positive value to 0 is the one that exhausts the round at attempt 3.
C15_NonFinalMissLeavesStatistics ==
    [][/\ (/\ lastOp' = "submit"
           /\ attemptBefore' < MAX_ATTEMPTS
           /\ outcome' # "correct") => UNCHANGED stats
       /\ (/\ lastOp' = "submit"
           /\ getItemOrZero(lsCurrentStreak) > 0
           /\ getItemOrZero(lsCurrentStreak') = 0)
              => /\ outcome' = "exhausted"
                 /\ attemptBefore' = MAX_ATTEMPTS]_vars

\* The second incorrect submission of a round was handled with a streak of 1
\* standing.
C15_Witness ==
    /\ lastOp = "submit"
    /\ outcome = "retry"
    /\ attemptBefore = 2
    /\ romanizations # Undefined
    /\ sanitizeText(wordInput) # <<>>
    /\ lsCurrentStreak = 1

\* C16: the attempt number, in memory and in storage, is always within
\* 1..MAX_ATTEMPTS; a step changes it only by adding 1 on an incorrect
\* submission below the last attempt, or by setting it to 1 when the
\* submission resolves the round.
C16_AttemptWithinBounds ==
    /\ [](/\ lsAttempt \in 1 .. MAX_ATTEMPTS
          /\ currentAttempt \in 1 .. MAX_ATTEMPTS)
    /\ [][\/ /\ lsAttempt' = lsAttempt
             /\ currentAttempt' = currentAttempt
          \/ /\ lastOp' = "submit"
             /\ outcome' = "retry"
             /\ attemptBefore' < MAX_ATTEMPTS
             /\ lsAttempt' = lsAttempt + 1
             /\ currentAttempt' = currentAttempt + 1
          \/ /\ lastOp' = "submit"
             /\ outcome' \in {"correct", "exhausted"}
             /\ lsEntry' = "absent"
             /\ lsAttempt' = 1
             /\ currentAttempt' = 1]_vars

\* A round was exhausted at attempt 3 and the attempt number is back to 1.
C16_Witness ==
    /\ lastOp = "submit"
    /\ outcome = "exhausted"
    /\ attemptBefore = MAX_ATTEMPTS
    /\ lsAttempt = 1
    /\ currentAttempt = 1

\* C17: right after a confirmed statistics reset the four counters are absent
\* and read as 0, whatever they held; a declined reset changes none of them.
C17_ResetClearsAllFourCounters ==
    /\ [](lastOp = "resetStats" =>
              /\ stats = <<Absent, Absent, Absent, Absent>>
              /\ \A i \in 1 .. 4 : getItemOrZero(stats[i]) = 0)
    /\ [][lastOp' = "resetDeclined" => UNCHANGED stats]_vars

\* The statistics were reset, confirmed, after a round had been resolved and
\* counted.
C17_Witness ==
    /\ lastOp = "resetStats"
    /\ resolved
    /\ lsTotalAttempts = Absent
    /\ lsMaxStreak = Absent

\* C18: a round start that finds no stored round and an empty pool for the
\* difficulty set reports NoEntriesForDifficulty without raising an error and
\* selects and stores no round; an entry a round start stores is a word of
\* the pool of the difficulty set.
C18_EmptyPoolSelectsNoRound ==
    LET pool == {w \in Words :
                     \/ lsDifficulty = "normal"
                     \/ lsDifficulty = "easy" /\ syllableCount(w) = 2
                     \/ lsDifficulty = "hard" /\ syllableCount(w) >= 3}
        started == lastOp \in {"load", "playAgain"}
    IN  /\ (started /\ playRead = "absent" /\ pool = {})
               => /\ outcome = "noEntries"
                  /\ ~thrown
                  /\ ~created
                  /\ lsEntry = "absent"
                  /\ ~RoundOpenInPage
        /\ (started /\ created)
               => /\ lsEntry \in pool
                  /\ korean = lsEntry
        /\ (started /\ outcome = "noEntries") => pool = {}

\* Play-again under difficulty "hard", which no word of the dictionary
\* meets: the start was reported as failed and nothing is stored.
C18_Witness ==
    /\ lastOp = "playAgain"
    /\ lsDifficulty = "hard"
    /\ \A w \in Words : syllableCount(w) < 3
    /\ outcome = "noEntries"
    /\ lsEntry = "absent"

\* C19: normalizing a normalized text changes nothing: for every text s,
\* sanitizeText(sanitizeText(s)) = sanitizeText(s), and the same for the
\* earlier variant's sanitizeInput.
C19_NormalizerIsIdempotent ==
    /\ lastOp = "sanitizeText" => sanitizeText(wordInput) = wordInput
    /\ lastOp = "sanitizeInput" => sanitizeInput(wordInput) = wordInput

\* sanitizeText returned the two jamo of a decomposed syllable.
C19_Witness ==
    /\ lastOp = "sanitizeText"
    /\ wordInput = <<"jamo_l", "jamo_v">>

\* C20: from empty statistics, totalAttempts is the number of rounds resolved
\* since the statistics were last reset and correctAnswers the number of them
\* resolved by a correct submission; an incorrect submission that leaves the
\* round open, a reload and play-again change neither counter.  Each round
\* counted had its entry stored and loses it in the step that counts it.
C20_EachRoundCountedOnce ==
    /\ [](/\ getItemOrZero(lsTotalAttempts) = roundsResolved
          /\ getItemOrZero(lsCorrectAnswers) = roundsCorrect)
    /\ [][(\/ lastOp' \in {"reload", "load", "loadFail", "playAgain"}
           \/ lastOp' = "submit" /\ outcome' \in {"retry", "error"})
              => UNCHANGED <<lsTotalAttempts, lsCorrectAnswers>>]_vars
    /\ [][roundsResolved' = roundsResolved + 1
              => /\ lsEntry \in Words
                 /\ lsEntry' = "absent"]_vars

\* Two rounds were resolved, one of them by a correct submission.
C20_Witness ==
    /\ roundsResolved = 2
    /\ roundsCorrect = 1
    /\ lsTotalAttempts = 2
    /\ lsCorrectAnswers = 1

\* C21: from empty storage, 0 <= currentStreak <= maxStreak <= correctAnswers
\* <= totalAttempts in every reachable state, an absent key counting as 0, so
\* the wrong answers shown are never negative and the win rate never exceeds
\* 100%.
C21_CountersAreOrdered ==
    LET cs == getItemOrZero(lsCurrentStreak)
        ms == getItemOrZero(lsMaxStreak)
        ca == getItemOrZero(lsCorrectAnswers)
        ta == getItemOrZero(lsTotalAttempts)
    IN  /\ 0 <= cs
        /\ cs <= ms
        /\ ms <= ca
        /\ ca <= ta
        /\ ta - ca >= 0
        /\ ta > 0 => ca * 100 <= ta * 100

\* An exhausted round was followed by one answered correctly.
C21_Witness ==
    /\ lsCurrentStreak = 1
    /\ lsMaxStreak = 1
    /\ lsCorrectAnswers = 1
    /\ lsTotalAttempts = 2
    /\ outcome = "correct"

\* C22: whenever no handler is running, the attempt number in memory equals
\* the one in storage, after any sequence of startup, submissions, play-again
\* and reloads in one page.
C22_MemoryAttemptEqualsStoredAttempt ==
    pc = "idle" => currentAttempt = lsAttempt

\* The page was loaded again with a round at its third attempt.
C22_Witness ==
    /\ pc = "idle"
    /\ lastOp = "reload"
    /\ lsEntry \in Words
    /\ lsAttempt = MAX_ATTEMPTS
    /\ currentAttempt = MAX_ATTEMPTS

\* C23: a confirmed statistics reset while a round is open removes the four
\* counters and changes nothing else: the stored entry, the attempt number
\* in memory and in storage, the accepted answers, the round shown and the
\* settings are as before, so the round goes on with the same word and the
\* same attempts left.
C23_ResetLeavesTheRound ==
    [][(/\ lastOp' = "resetStats"
        /\ RoundOpenInPage
        /\ lsEntry = korean)
           => /\ stats' = <<Absent, Absent, Absent, Absent>>
              /\ UNCHANGED <<lsEntry, lsAttempt, currentAttempt,
                             romanizations, korean, definition, inputLocked,
                             playAgainShown, settings>>
              /\ RoundOpenInPage'
              /\ lsEntry' = korean']_vars

\* The statistics were reset at the second attempt of a round, with a theme
\* chosen: the round, the attempt and the theme are still there.
C23_Witness ==
    /\ lastOp = "resetStats"
    /\ RoundOpenInPage
    /\ lsEntry = korean
    /\ lsAttempt = 2
    /\ currentAttempt = 2
    /\ lsTheme = "dark"
    /\ stats = <<Absent, Absent, Absent, Absent>>
    /\ resolved = FALSE
    /\ wrongInRound = 1

(***************************************************************************)
(* C24: given the same steps, without reloads, the two variants of the     *)
(* script agree after every step: the same outcome of the last submission, *)
(* the input locked and play-again offered in the same states, the same    *)
(* current and maximum streak, and, while a round is open, the earlier     *)
(* variant's failure count one less than the later variant's attempt.      *)
(***************************************************************************)
C24_VariantsAgree ==
    pc = "idle" =>
        /\ outcome = earlier.outcome
        /\ inputLocked = earlier.disabled
        /\ playAgainShown = earlier.playAgain
        /\ getItemOrZero(lsCurrentStreak) = getItemOrZero(earlier.currentStreak)
        /\ getItemOrZero(lsMaxStreak) = getItemOrZero(earlier.maxStreak)
        /\ ~inputLocked => earlier.currentAttempts = currentAttempt - 1

=============================================================================
